---- MODULE Spec2Model ----
(***************************************************************************)
(* Model of the text-to-speech backend (backend/main.py) and of the        *)
(* standalone retention script (backend/cleanup.py).                       *)
(*                                                                         *)
(* Text is a sequence of one-character strings.  Audio is a sequence of    *)
(* clips, one clip per synthesized text: the audio the engine produces for *)
(* a text t is <<t>>, and concatenating audio is concatenating sequences.  *)
(* Time is counted in ticks, TicksPerHour ticks to the hour.               *)
(***************************************************************************)
EXTENDS Integers, Sequences, FiniteSets, TLC

VARIABLES
    seg_text,      \* Segmenter harness: the text handed to the splitter
    seg_maxlen,    \* Segmenter harness: the maxLen handed to the splitter
    seg_parts,     \* Segmenter harness: the segments returned
    seg_pc,        \* Segmenter harness: "input" | "done"
    req,           \* per request id: the state of its generate_tts coroutine
    fs,            \* the files of TEMP_DIR: path -> content
    store,         \* the MinIO bucket: object key -> [data, last_modified]
    pydub,         \* whether "from pydub import AudioSegment" succeeds
    now,           \* datetime.utcnow(), in ticks
    hours,         \* cleanup.py's CLEANUP_INTERVAL_HOURS (environment)
    sweep,         \* the last retention sweep that ran, or NoSweep
    fetch,         \* per download request: the state of its download_file call
    norm_text,     \* Normalizer harness: the text handed to the expansion step
    norm_table,    \* Normalizer harness: the order the table's pairs are applied in
    norm_out,      \* Normalizer harness: the text returned
    norm_pc        \* Normalizer harness: "input" | "done"

vars == <<seg_text, seg_maxlen, seg_parts, seg_pc, req, fs, store, pydub, now, hours, sweep,
          fetch, norm_text, norm_table, norm_out, norm_pc>>

(***************************************************************************)
(* Bounds of the model.                                                    *)
(***************************************************************************)
\* longest text handed to the splitter harness
MaxTextLen == 5
\* largest maxLen handed to the splitter harness
MaxSegLen == 3
\* generate_audio_async's max_length (10000 in the source), scaled down so
\* that bounded request texts exceed it
max_length == 3
\* clock resolution
TicksPerHour == 2
\* the clock runs over 0..MaxTime
MaxTime == 5
\* largest CLEANUP_INTERVAL_HOURS tried
MaxHours == 2
\* most words in a text handed to the normalizer harness
MaxWords == 2
\* most ticks between fput_object and the clock reading of expires_at;
\* with whole ticks and strict comparisons a sweep can fall between the two
\* deadlines only if they are two ticks apart
MaxLate == 2

(***************************************************************************)
(* Strings.                                                                *)
(***************************************************************************)
\* the characters the splitter harness builds texts from
SegAlphabet == {"a", ".", "!", " "}

\* all sequences over alphabet A of length at most n
Strings(A, n) == UNION {[1..k -> A] : k \in 0..n}

\* whitespace, as \s matches it
IsSpace(c) == c \in {" ", "\n", "\t"}

\* the characters of [.!?]
IsTerminator(c) == c \in {".", "!", "?"}

\* s from position i to its end
From(s, i) == SubSeq(s, i, Len(s))

\* whether s holds lit at position i
StartsAt(s, i, lit) ==
    /\ i + Len(lit) - 1 <= Len(s)
    /\ SubSeq(s, i, i + Len(lit) - 1) = lit

\* the concatenation of a sequence of sequences: ''.join(xs)
RECURSIVE Join(_)
Join(xs) == IF xs = <<>> THEN <<>> ELSE Head(xs) \o Join(Tail(xs))

\* the sum of a sequence of numbers
RECURSIVE Sum(_)
Sum(xs) == IF xs = <<>> THEN 0 ELSE Head(xs) + Sum(Tail(xs))

(***************************************************************************)
(* The splitter of generate_audio_async.                                   *)
(***************************************************************************)
\* the end of the run of whitespace that starts at position i (i - 1 if none)
RECURSIVE SpaceRunEnd(_, _)
SpaceRunEnd(s, i) ==
    IF i <= Len(s) /\ IsSpace(s[i]) THEN SpaceRunEnd(s, i + 1) ELSE i - 1

\* whether [.!?]\s+ matches at position i
SepAt(s, i) == i < Len(s) /\ IsTerminator(s[i]) /\ IsSpace(s[i + 1])

\* re.split(r'([.!?]\s+)', text) from position i on, cur being the piece
\* collected since the last separator: pieces and separators alternate
RECURSIVE SplitFrom(_, _, _)
SplitFrom(s, i, cur) ==
    IF i > Len(s) THEN <<cur>>
    ELSE IF SepAt(s, i)
         THEN LET e == SpaceRunEnd(s, i + 1)
              IN  <<cur, SubSeq(s, i, e)>> \o SplitFrom(s, e + 1, <<>>)
         ELSE SplitFrom(s, i + 1, Append(cur, s[i]))

re_split(text) == SplitFrom(text, 1, <<>>)

\* a variant of SentenceAt that drops the separator after the sentence;
\* C6_ConcatReproducesText tells it from the source
SentenceWithoutSeparator(sentences, i) == sentences[i]

\* sentences[i] + (sentences[i+1] if i+1 < len(sentences) else ''), i counted
\* from 1 here
SentenceAt(sentences, i) ==
    sentences[i] \o (IF i + 1 <= Len(sentences) THEN sentences[i + 1] ELSE <<>>)

\* a variant of PackFrom that also starts a new part when the sentence
\* would fill the current part exactly; C17_GreedyPacking tells it from the
\* source
RECURSIVE PackFromEager(_, _, _, _, _, _)
PackFromEager(sentences, i, parts, current_part, current_length, maxLen) ==
    IF i > Len(sentences)
    THEN IF current_part # <<>> THEN Append(parts, Join(current_part)) ELSE parts
    ELSE LET sentence == SentenceAt(sentences, i)
             sentence_length == Len(sentence)
         IN  IF current_length + sentence_length >= maxLen /\ current_part # <<>>
             THEN PackFromEager(sentences, i + 2, Append(parts, Join(current_part)),
                                <<sentence>>, sentence_length, maxLen)
             ELSE PackFromEager(sentences, i + 2, parts,
                                Append(current_part, sentence),
                                current_length + sentence_length, maxLen)

\* the for loop over range(0, len(sentences), 2) and the final flush;
\* current_part is the list of sentences collected, as in the source
RECURSIVE PackFrom(_, _, _, _, _, _)
PackFrom(sentences, i, parts, current_part, current_length, maxLen) ==
    IF i > Len(sentences)
    THEN IF current_part # <<>> THEN Append(parts, Join(current_part)) ELSE parts
    ELSE LET sentence == SentenceAt(sentences, i)
             sentence_length == Len(sentence)
         IN  IF current_length + sentence_length > maxLen /\ current_part # <<>>
             THEN PackFrom(sentences, i + 2, Append(parts, Join(current_part)),
                           <<sentence>>, sentence_length, maxLen)
             ELSE PackFrom(sentences, i + 2, parts,
                           Append(current_part, sentence),
                           current_length + sentence_length, maxLen)

\* the parts list built in the else branch
split_parts(text, maxLen) == PackFrom(re_split(text), 1, <<>>, <<>>, 0, maxLen)

\* the segments generate_audio_async synthesizes: the text itself on the fast
\* path, the parts list otherwise
segment(text, maxLen) ==
    IF Len(text) <= maxLen THEN <<text>> ELSE split_parts(text, maxLen)

(***************************************************************************)
(* clean_text.                                                             *)
(***************************************************************************)
\* the end of the run of characters other than stop that starts at position
\* i (i - 1 if there is none): what [^stop]+ consumes
RECURSIVE RunEnd(_, _, _)
RunEnd(s, i, stop) ==
    IF i <= Len(s) /\ s[i] # stop THEN RunEnd(s, i + 1, stop) ELSE i - 1

\* the end of the match of  open [^stop]+ close  at position i, 0 if none;
\* close starts with stop in every pattern of clean_text, so the run is the
\* only one the regex can take
DelimEnd(s, i, open, stop, close) ==
    IF ~StartsAt(s, i, open) THEN 0
    ELSE LET a == i + Len(open)
             e == RunEnd(s, a, stop)
         IN  IF e >= a /\ StartsAt(s, e + 1, close) THEN e + Len(close) ELSE 0

\* re.sub(open ([^stop]+) close, repl, s) from position i on, repl being the
\* group (keep) or the empty string
RECURSIVE SubDelim(_, _, _, _, _, _)
SubDelim(s, i, open, stop, close, keep) ==
    IF i > Len(s) THEN <<>>
    ELSE LET e == DelimEnd(s, i, open, stop, close)
         IN  IF e > 0
             THEN (IF keep THEN SubSeq(s, i + Len(open), e - Len(close)) ELSE <<>>)
                  \o SubDelim(s, e + 1, open, stop, close, keep)
             ELSE <<s[i]>> \o SubDelim(s, i + 1, open, stop, close, keep)

\* the end of the match of  \[([^\]]+)\]\([^\)]+\)  at position i, 0 if none
LinkEnd(s, i) ==
    LET e1 == DelimEnd(s, i, <<"[">>, "]", <<"]", "(">>)
        e2 == RunEnd(s, e1 + 1, ")")
    IN  IF e1 > 0 /\ e2 > e1 /\ StartsAt(s, e2 + 1, <<")">>) THEN e2 + 1 ELSE 0

\* re.sub(r'\[([^\]]+)\]\([^\)]+\)', r'\1', s) from position i on
RECURSIVE SubLink(_, _)
SubLink(s, i) ==
    IF i > Len(s) THEN <<>>
    ELSE LET e == LinkEnd(s, i)
         IN  IF e > 0
             THEN SubSeq(s, i + 1, RunEnd(s, i + 1, "]")) \o SubLink(s, e + 1)
             ELSE <<s[i]>> \o SubLink(s, i + 1)

\* re.sub(r'\s+', ' ', s) from position i on
RECURSIVE SubSpaces(_, _)
SubSpaces(s, i) ==
    IF i > Len(s) THEN <<>>
    ELSE IF IsSpace(s[i]) THEN <<" ">> \o SubSpaces(s, SpaceRunEnd(s, i) + 1)
         ELSE <<s[i]>> \o SubSpaces(s, i + 1)

\* str.strip()
RECURSIVE LStrip(_)
LStrip(s) == IF s # <<>> /\ IsSpace(Head(s)) THEN LStrip(Tail(s)) ELSE s

RECURSIVE RStrip(_)
RStrip(s) ==
    IF s # <<>> /\ IsSpace(s[Len(s)]) THEN RStrip(SubSeq(s, 1, Len(s) - 1)) ELSE s

strip(s) == RStrip(LStrip(s))

\* str.replace(old, new): leftmost occurrences, not overlapping
RECURSIVE replace(_, _, _)
replace(s, old, new) ==
    IF Len(s) < Len(old) THEN s
    ELSE IF StartsAt(s, 1, old)
         THEN new \o replace(From(s, Len(old) + 1), old, new)
         ELSE <<Head(s)>> \o replace(Tail(s), old, new)

\* the replacements dict, in its insertion order
replacements ==
    << <<<<"k","u","b","e","c","t","l">>, <<"k","u","b","e"," ","c","o","n","t","r","o","l">>>>,
       <<<<"2","F","A">>, <<"t","w","o"," ","f","a","c","t","o","r"," ",
                            "a","u","t","h","e","n","t","i","c","a","t","i","o","n">>>>,
       <<<<"S","S","H">>, <<"S"," ","S"," ","H">>>>,
       <<<<"H","T","T","P">>, <<"H"," ","T"," ","T"," ","P">>>>,
       <<<<"H","T","T","P","S">>, <<"H"," ","T"," ","T"," ","P"," ","S">>>>,
       <<<<"A","P","I">>, <<"A"," ","P"," ","I">>>>,
       <<<<"C","R","U","D">>, <<"C"," ","R"," ","U"," ","D">>>>,
       <<<<"S","M","T","P">>, <<"S"," ","M"," ","T"," ","P">>>> >>

\* for old, new in table: text = text.replace(old, new)
RECURSIVE ReplaceAll(_, _)
ReplaceAll(s, table) ==
    IF table = <<>> THEN s
    ELSE ReplaceAll(replace(s, Head(table)[1], Head(table)[2]), Tail(table))

\* the grave accent (U+0060), which a TLA+ string literal cannot hold
BT == "grave"

\* the markup and whitespace steps of clean_text, up to text.strip()
strip_markup(text) ==
    LET t1 == SubLink(text, 1)
        t2 == SubDelim(t1, 1, <<"*", "*">>, "*", <<"*", "*">>, TRUE)
        t3 == SubDelim(t2, 1, <<"*">>, "*", <<"*">>, TRUE)
        t4 == SubDelim(t3, 1, <<BT, BT, BT>>, BT, <<BT, BT, BT>>, FALSE)
        t5 == SubDelim(t4, 1, <<BT>>, BT, <<BT>>, TRUE)
        t6 == SubDelim(t5, 1, <<"<">>, ">", <<">">>, FALSE)
    IN  strip(SubSpaces(t6, 1))

clean_text(text) ==
    LET t7 == ReplaceAll(strip_markup(text), replacements)
        t8 == replace(t7, <<".", ".", ".">>, <<".">>)
    IN  replace(t8, <<"-", "-">>, <<"-">>)

(***************************************************************************)
(* State of the service.                                                   *)
(***************************************************************************)
\* the file ids uuid.uuid4() hands to the requests modelled
Reqs == {"r1", "r2"}

\* TTSRequest.text: Field(min_length=1, max_length=50000)
FieldMinLength == 1
FieldMaxLength == 50000

\* _generate_single_audio_async's max_retries
max_retries == 3

\* the factor of wait_time = (attempt + 1) * 2
base_delay == 2

\* CLEANUP_INTERVAL = timedelta(hours=1)
CLEANUP_INTERVAL == 1 * TicksPerHour

\* TEMP_DIR is the set of its files: path <<id, 0>> is {id}.mp3 and
\* <<id, n>> is {id}_part{n}.mp3; a file is whole, or cut short by a write
\* that failed
File(path, whole, clips) == [path |-> path, whole |-> whole, clips |-> clips]
Exists(dir, path) == \E f \in dir : f.path = path
Read(dir, path) == CHOOSE f \in dir : f.path = path
Remove(dir, path) == {f \in dir : f.path # path}
Write(dir, path, whole, clips) == Remove(dir, path) \cup {File(path, whole, clips)}

\* os.rename(src, dst)
Rename(dir, src, dst) ==
    IF Exists(dir, src)
    THEN Write(Remove(dir, src), dst, Read(dir, src).whole, Read(dir, src).clips)
    ELSE dir

\* the files of one request id
FilesOf(dir, id) == {f \in dir : f.path[1] = id}

\* the bucket is the set of its objects, one per key; the key {id}.mp3 is
\* written id
Object(key, data, t) == [key |-> key, data |-> data, last_modified |-> t]
Stored(bucket, key) == \E o \in bucket : o.key = key
Get(bucket, key) == CHOOSE o \in bucket : o.key = key
Put(bucket, key, data, t) == {o \in bucket : o.key # key} \cup {Object(key, data, t)}

\* the audio edge_tts produces for a text
Audio(text) == <<text>>

\* the record of one _generate_single_audio_async call: engine calls made,
\* how many of them failed, the sleeps between them, and what it returned
NoCall == [calls |-> 0, fails |-> 0, waits |-> <<>>, ok |-> FALSE]

\* no retention sweep has run yet.  A sweep leaves its kind ("api" for DELETE
\* /api/cleanup, "script" for cleanup.py), the time and window it used, the
\* objects it removed, the keys whose removal failed, the count it returned,
\* whether it ended in an error, and a bit that flips with every sweep.
NoSweep == [kind |-> "none", at |-> 0, window |-> 0, deleted |-> {},
            failed |-> {}, deleted_count |-> 0, error |-> FALSE, seq |-> 0]

\* the download requests modelled, and the ids they ask for: the id of a
\* generate request and one that was never generated
Fetchers == {"f1", "f2"}
Generated == "r1"
NeverGenerated == "r0"
FileIds == {Generated, NeverGenerated}

\* a download_file call that has not been made
IdleFetch ==
    [pc |-> "idle",          \* "idle" | "responding" | "sent" | "done"
     file_id |-> "",         \* the path parameter
     reported |-> "",        \* what fget_object did: "ok" or the error raised
     existed |-> FALSE,      \* whether the object was in the bucket at fget_object
     data |-> <<>>,          \* the object's bytes at fget_object
     status |-> 0,           \* HTTP status of the response, 0 before it
     body |-> <<>>]          \* the bytes sent

\* TTSRequest.voice: its default, which the engine knows, and a name the
\* engine has no voice for
DefaultVoice == "en-US-DavisNeural"
UnknownVoice == "no-such-voice"
Voices == {DefaultVoice, UnknownVoice}

\* a generate_tts coroutine that has not been called
IdleReq ==
    [pc |-> "idle",          \* "idle" | "saving" | "sleeping" | "done" | "cancelled"
     raw |-> <<>>,           \* request.text
     voice |-> DefaultVoice, \* request.voice
     text |-> <<>>,          \* cleaned_text
     parts |-> <<>>,         \* the segments to synthesize
     idx |-> 0,              \* the segment being synthesized, from 1
     attempt |-> 0,          \* the retry loop's attempt
     temp_files |-> <<>>,    \* numbers of the part files generated so far
     status |-> 0,           \* HTTP status of the response, 0 before it
     detail |-> "",          \* detail of the HTTPException raised
     expires_at |-> 0,       \* TTSResponse.expires_at
     calls |-> 0,            \* engine calls of the running synthesis call
     fails |-> 0,            \* how many of them raised
     waits |-> <<>>,         \* sleeps of the running synthesis call
     last |-> NoCall,        \* the synthesis call that returned last
     invocations |-> 0,      \* synthesis calls started
     puts |-> 0,             \* fput_object calls issued for the request
     merged |-> "none"]      \* how the parts became the output file

ServiceIdle ==
    /\ req = [r \in Reqs |-> IdleReq]
    /\ fs = {}
    /\ store = {}
    /\ pydub = TRUE
    /\ now = 0
    /\ hours = 1
    /\ sweep = NoSweep
    /\ fetch = [f \in Fetchers |-> IdleFetch]

serviceVars == <<req, fs, store, pydub, now, hours, sweep, fetch>>
segVars == <<seg_text, seg_maxlen, seg_parts, seg_pc>>
normVars == <<norm_text, norm_table, norm_out, norm_pc>>

NormIdle ==
    /\ norm_text = <<>>
    /\ norm_table = <<>>
    /\ norm_out = <<>>
    /\ norm_pc = "input"

SegIdle ==
    /\ seg_text = <<>>
    /\ seg_maxlen = 1
    /\ seg_parts = <<>>
    /\ seg_pc = "input"

(***************************************************************************)
(* generate_tts: one action per stretch of code between two suspension     *)
(* points (the awaits of communicate.save and of asyncio.sleep).           *)
(***************************************************************************)
\* the texts clients post: empty, blank, markup only, short, and texts that
\* clean to more than max_length characters in one, two and three sentences
RequestTexts ==
    { <<>>,
      <<" ">>,
      <<"<", "a", ">">>,
      <<"a">>,
      <<"a", " ", " ", "a">>,
      <<"*", "a", "a", ".", "*">>,
      <<"a", ".", " ", "a", "a">>,
      <<"a", ".", " ", " ", "a", ".", " ", "a", "a">>,
      <<"a", "a", "a", "a", "a">> }

\* clean_text over the request texts
Cleaned == [raw \in RequestTexts |-> clean_text(raw)]

\* what the merge and the upload can do
MergeOutcomes == {"ok", "decode_error", "export_error"}
UploadOutcomes == {"ok", "S3Error", "error"}

\* a variant of FastPath that sends a text of exactly max_length characters
\* through the split; C8_FastPath tells it from the source
FastPathStrict(q) == Len(q.text) < max_length

\* whether generate_audio_async takes the branch of line 120
FastPath(q) == Len(q.text) <= max_length

\* the file the running synthesis call writes: output_file on the fast path,
\* temp_file = {id}_part{i+1}.mp3 otherwise
Target(id, q) == <<id, IF FastPath(q) THEN 0 ELSE q.idx>>

\* raise HTTPException(status_code, detail)
Raise(q, status, detail) ==
    [q EXCEPT !.pc = "done", !.status = status, !.detail = detail]

\* _generate_single_audio_async is entered for segment i: attempt 0 calls the
\* engine and the coroutine is suspended in communicate.save
StartSingle(q, i) ==
    [q EXCEPT !.pc = "saving", !.idx = i, !.attempt = 0,
              !.calls = 1, !.fails = 0, !.waits = <<>>,
              !.invocations = @ + 1]

\* a variant of Retries that gives up one attempt early; C2_RetriesExhausted
\* tells it from the source
RetriesOneLess(attempt) == attempt < max_retries - 2

\* whether the except branch of _generate_single_audio_async sleeps and retries
Retries(attempt) == attempt < max_retries - 1

\* a variant of wait_time that sleeps the same time after every attempt;
\* C3_LinearBackoff tells it from the source
wait_time_constant(attempt) == base_delay

\* wait_time = (attempt + 1) * 2
wait_time(attempt) == (attempt + 1) * base_delay

\* the synthesis call returns: its record is kept
Returned(q, ok) ==
    [q EXCEPT !.last = [calls |-> q.calls, fails |-> q.fails,
                        waits |-> q.waits, ok |-> ok]]

\* the except branch of generate_audio_async's loop (lines 150-156): the
\* part files generated so far are removed
RECURSIVE RemoveParts(_, _, _)
RemoveParts(dir, id, temp_files) ==
    IF temp_files = <<>> THEN dir
    ELSE RemoveParts(Remove(dir, <<id, Head(temp_files)>>), id, Tail(temp_files))

\* combined += AudioSegment.from_mp3(tf) for tf in temp_files
RECURSIVE Combined(_, _, _)
Combined(dir, id, temp_files) ==
    IF temp_files = <<>> THEN <<>>
    ELSE Read(dir, <<id, Head(temp_files)>>).clips \o Combined(dir, id, Tail(temp_files))

\* lines 158-185: the part files become output_file.  lib says whether pydub
\* imports, outcome what its calls do, leaves whether a failed export left a
\* file behind.  result is "true", "false" or "raise".
Merge(dir, id, temp_files, lib, outcome, leaves) ==
    IF temp_files = <<>> THEN [result |-> "false", dir |-> dir, how |-> "none"]
    ELSE IF Len(temp_files) = 1
    THEN [result |-> "true", how |-> "rename",
          dir |-> Rename(dir, <<id, temp_files[1]>>, <<id, 0>>)]
    ELSE IF ~lib
    THEN [result |-> "true", how |-> "first_only",
          dir |-> Rename(RemoveParts(dir, id, Tail(temp_files)),
                         <<id, temp_files[1]>>, <<id, 0>>)]
    ELSE IF outcome = "decode_error"
    THEN [result |-> "raise", how |-> "error", dir |-> dir]
    ELSE IF outcome = "export_error"
    THEN [result |-> "raise", how |-> "error",
          dir |-> IF leaves THEN Write(dir, <<id, 0>>, FALSE, <<>>) ELSE dir]
    ELSE [result |-> "true", how |-> "pydub",
          dir |-> RemoveParts(Write(dir, <<id, 0>>, TRUE, Combined(dir, id, temp_files)),
                              id, temp_files)]

\* a variant of Upload in which a failed fput_object leaves what it had
\* written in the bucket; C1_PersistedOrFailed tells it from the source
UploadLeavesObject(id, q, dir, bucket, t, later, outcome) ==
    [q |-> IF outcome = "ok"
           THEN [q EXCEPT !.pc = "done", !.status = 200, !.puts = @ + 1,
                          !.expires_at = later + CLEANUP_INTERVAL]
           ELSE Raise([q EXCEPT !.puts = @ + 1], 500, "Failed to upload to MinIO"),
     dir |-> IF outcome = "ok" THEN Remove(dir, <<id, 0>>) ELSE dir,
     bucket |-> Put(bucket, id, Read(dir, <<id, 0>>).clips, t)]

\* lines 297-314 of generate_tts: upload, remove the temp file, respond
\* (upload_to_minio turns an S3Error into an HTTPException; any other
\* exception reaches generate_tts's own handler); fput_object is atomic.
\* The object is written at time t; datetime.utcnow() of line 308 is read
\* at time later.
Upload(id, q, dir, bucket, t, later, outcome) ==
    IF outcome = "ok"
    THEN [q |-> [q EXCEPT !.pc = "done", !.status = 200, !.puts = @ + 1,
                          !.expires_at = later + CLEANUP_INTERVAL],
          dir |-> Remove(dir, <<id, 0>>),
          bucket |-> Put(bucket, id, Read(dir, <<id, 0>>).clips, t)]
    ELSE [q |-> Raise([q EXCEPT !.puts = @ + 1], 500,
                      IF outcome = "S3Error" THEN "Failed to upload to MinIO"
                      ELSE "Error generating audio"),
          dir |-> dir,
          bucket |-> bucket]

\* generate_audio_async returned False: lines 294-295
GenerationFailed(q) == Raise(q, 500, "Failed to generate audio")

\* TTSRequest's validation of text
FieldValid(raw) == Len(raw) >= FieldMinLength /\ Len(raw) <= FieldMaxLength

\* a variant of IsEmpty that lets the empty text through; C9_EmptyRejected
\* tells it from the source
IsEmptyNever(cleaned_text) == FALSE

\* "if not cleaned_text"
IsEmpty(cleaned_text) == cleaned_text = <<>>

\* POST /api/generate up to the first await: validation of the request
\* model, clean_text, the empty check, the split, the first engine call
Accept(q, raw) ==
    LET cleaned_text == Cleaned[raw]
    IN  IF ~FieldValid(raw)
        THEN Raise(q, 422, "validation error")
        ELSE IF IsEmpty(cleaned_text)
        THEN Raise(q, 400, "Text is empty after cleaning")
        ELSE StartSingle([q EXCEPT !.text = cleaned_text,
                                   !.parts = segment(cleaned_text, max_length)], 1)

\* the request leaves voice at its default
Generate(r, raw) ==
    /\ req[r].pc = "idle"
    /\ req' = [req EXCEPT ![r] = Accept([req[r] EXCEPT !.raw = raw], raw)]
    /\ UNCHANGED <<fs, store, pydub, now, hours, sweep, fetch, segVars, normVars>>

\* the request names its voice
GenerateVoice(r, raw, voice) ==
    /\ req[r].pc = "idle"
    /\ req' = [req EXCEPT ![r] =
                  Accept([req[r] EXCEPT !.raw = raw, !.voice = voice], raw)]
    /\ UNCHANGED <<fs, store, pydub, now, hours, sweep, fetch, segVars, normVars>>

\* what a failed communicate.save leaves at the path it was writing: the
\* file as it was, or a file cut short
AfterFailedSave(dir, path, leaves) ==
    IF leaves THEN Write(dir, path, FALSE, <<>>) ELSE dir

\* communicate.save raises and the loop goes on: sleep wait_time
SaveFailsRetry(r) ==
    /\ req[r].pc = "saving"
    /\ Retries(req[r].attempt)
    /\ \E leaves \in BOOLEAN :
          fs' = AfterFailedSave(fs, Target(r, req[r]), leaves)
    /\ req' = [req EXCEPT ![r] =
                  [@ EXCEPT !.pc = "sleeping", !.fails = @ + 1,
                            !.waits = Append(@, wait_time(req[r].attempt))]]
    /\ UNCHANGED <<store, pydub, now, hours, sweep, fetch, segVars, normVars>>

\* asyncio.sleep returns: the next iteration of range(max_retries) calls the
\* engine again, or the loop is over and line 202 returns False
SleepReturns(r) ==
    /\ req[r].pc = "sleeping"
    /\ LET q == req[r]
       IN  IF q.attempt + 1 < max_retries
           THEN /\ req' = [req EXCEPT ![r] =
                              [@ EXCEPT !.pc = "saving", !.attempt = @ + 1,
                                        !.calls = @ + 1]]
                /\ fs' = fs
           ELSE /\ req' = [req EXCEPT ![r] = GenerationFailed(Returned(q, FALSE))]
                /\ fs' = IF FastPath(q) THEN fs ELSE RemoveParts(fs, r, q.temp_files)
    /\ UNCHANGED <<store, pydub, now, hours, sweep, fetch, segVars, normVars>>

\* communicate.save raises on the last attempt: the synthesis call returns
\* False, generate_audio_async removes the parts generated so far and
\* returns False, generate_tts raises
SaveFailsFinal(r) ==
    /\ req[r].pc = "saving"
    /\ ~Retries(req[r].attempt)
    /\ LET q == [req[r] EXCEPT !.fails = @ + 1]
       IN  /\ req' = [req EXCEPT ![r] = GenerationFailed(Returned(q, FALSE))]
           /\ \E leaves \in BOOLEAN :
                 LET dir == AfterFailedSave(fs, Target(r, q), leaves)
                 IN  fs' = IF FastPath(q) THEN dir ELSE RemoveParts(dir, r, q.temp_files)
    /\ UNCHANGED <<store, pydub, now, hours, sweep, fetch, segVars, normVars>>

\* communicate.save returns for a part that is not the last: the part file
\* joins temp_files and the next part's synthesis call starts
SaveOkNext(r) ==
    /\ req[r].pc = "saving"
    /\ ~FastPath(req[r])
    /\ req[r].idx < Len(req[r].parts)
    /\ LET q == req[r]
       IN  /\ fs' = Write(fs, Target(r, q), TRUE, Audio(q.parts[q.idx]))
           /\ req' = [req EXCEPT ![r] =
                         StartSingle([Returned(q, TRUE) EXCEPT
                                         !.temp_files = Append(@, q.idx)], q.idx + 1)]
    /\ UNCHANGED <<store, pydub, now, hours, sweep, fetch, segVars, normVars>>

\* whether the merge of the request's parts goes through pydub (line 162)
UsesPydub(q) == ~FastPath(q) /\ Len(q.parts) >= 2 /\ pydub

\* communicate.save returns for the only or the last segment: the rest of
\* generate_audio_async and of generate_tts runs without suspending, and
\* the clock advances by late between fput_object and line 308
SaveOkLastAt(r, late) ==
    /\ req[r].pc = "saving"
    /\ now + late <= MaxTime
    /\ FastPath(req[r]) \/ req[r].idx >= Len(req[r].parts)
    /\ \E m \in (IF UsesPydub(req[r]) THEN MergeOutcomes ELSE {"ok"}),
          leaves \in (IF UsesPydub(req[r]) THEN BOOLEAN ELSE {FALSE}),
          u \in UploadOutcomes :
          LET q0 == Returned(req[r], TRUE)
              q == IF FastPath(q0) THEN q0
                   ELSE [q0 EXCEPT !.temp_files = Append(@, q0.idx)]
              dir == Write(fs, Target(r, q0), TRUE, Audio(q0.parts[q0.idx]))
              mg == IF FastPath(q) THEN [result |-> "true", how |-> "none", dir |-> dir]
                    ELSE Merge(dir, r, q.temp_files, pydub, m, leaves)
              qm == [q EXCEPT !.merged = mg.how]
              up == Upload(r, qm, mg.dir, store, now, now + late, u)
          IN  CASE mg.result = "raise" ->
                     /\ req' = [req EXCEPT ![r] = Raise(qm, 500, "Error generating audio")]
                     /\ fs' = mg.dir
                     /\ store' = store
                [] mg.result = "false" ->
                     /\ req' = [req EXCEPT ![r] = GenerationFailed(qm)]
                     /\ fs' = mg.dir
                     /\ store' = store
                [] OTHER ->
                     /\ req' = [req EXCEPT ![r] = up.q]
                     /\ fs' = up.dir
                     /\ store' = up.bucket
    /\ now' = now + late
    /\ UNCHANGED <<pydub, hours, sweep, fetch, segVars, normVars>>

\* the same within one tick of the clock
SaveOkLast(r) == SaveOkLastAt(r, 0)

Init ==
    /\ SegIdle
    /\ req = [r \in Reqs |-> IdleReq]
    /\ fs = {}
    /\ store = {}
    /\ pydub \in BOOLEAN
    /\ now = 0
    /\ hours = 1
    /\ sweep = NoSweep
    /\ fetch = [f \in Fetchers |-> IdleFetch]
    /\ NormIdle

Next ==
    \E r \in Reqs :
        \/ \E raw \in RequestTexts : Generate(r, raw)
        \/ SaveFailsRetry(r)
        \/ SleepReturns(r)
        \/ SaveFailsFinal(r)
        \/ SaveOkNext(r)
        \/ SaveOkLast(r)

Spec == Init /\ [][Next]_vars

(***************************************************************************)
(* The retention sweep: DELETE /api/cleanup and cleanup.py.  Neither       *)
(* suspends, so each is one action.                                        *)
(***************************************************************************)
\* a variant of older_api that also takes an object exactly as old as the
\* window; C10_SweepDeletesOlder tells it from the source
older_api_inclusive(obj, t) == (t - obj.last_modified) >= CLEANUP_INTERVAL

\* main.py line 360: (now - obj.last_modified) > CLEANUP_INTERVAL
older_api(obj, t) == (t - obj.last_modified) > CLEANUP_INTERVAL

\* cleanup.py line 40: cutoff_time = now - timedelta(hours=CLEANUP_INTERVAL_HOURS)
cutoff_time(t, h) == t - h * TicksPerHour

\* cleanup.py line 46: obj_time < cutoff_time
older_script(obj, t, h) == obj.last_modified < cutoff_time(t, h)

\* a variant of ApiLoop that ends the pass at the first remove_object that
\* raises; C11_FailedDeleteSkipped tells it from the source
RECURSIVE ApiLoopAborting(_, _, _, _)
ApiLoopAborting(objects, t, failing, acc) ==
    IF objects = {} THEN acc
    ELSE LET obj == CHOOSE o \in objects : TRUE
             rest == objects \ {obj}
         IN  IF older_api(obj, t) /\ obj.key \in failing
             THEN acc
             ELSE IF older_api(obj, t)
             THEN ApiLoopAborting(rest, t, failing,
                                  [bucket |-> acc.bucket \ {obj},
                                   deleted_count |-> acc.deleted_count + 1])
             ELSE ApiLoopAborting(rest, t, failing, acc)

\* one pass of "for obj in objects" of main.py: failing holds the keys whose
\* remove_object raises; acc is the bucket and deleted_count so far
RECURSIVE ApiLoop(_, _, _, _)
ApiLoop(objects, t, failing, acc) ==
    IF objects = {} THEN acc
    ELSE LET obj == CHOOSE o \in objects : TRUE
             rest == objects \ {obj}
         IN  IF older_api(obj, t) /\ obj.key \notin failing
             THEN ApiLoop(rest, t, failing,
                          [bucket |-> acc.bucket \ {obj},
                           deleted_count |-> acc.deleted_count + 1])
             ELSE ApiLoop(rest, t, failing, acc)

\* the same pass in cleanup.py
RECURSIVE ScriptLoop(_, _, _, _, _)
ScriptLoop(objects, t, h, failing, acc) ==
    IF objects = {} THEN acc
    ELSE LET obj == CHOOSE o \in objects : TRUE
             rest == objects \ {obj}
         IN  IF older_script(obj, t, h) /\ obj.key \notin failing
             THEN ScriptLoop(rest, t, h, failing,
                             [bucket |-> acc.bucket \ {obj},
                              deleted_count |-> acc.deleted_count + 1])
             ELSE ScriptLoop(rest, t, h, failing, acc)

Keys(bucket) == {o.key : o \in bucket}

\* what a sweep leaves behind
Swept(kind, window, eligible, failing, out, listing_fails) ==
    IF listing_fails
    THEN [kind |-> kind, at |-> now, window |-> window, deleted |-> {}, failed |-> {},
          deleted_count |-> 0, error |-> TRUE, seq |-> 1 - sweep.seq]
    ELSE [kind |-> kind, at |-> now, window |-> window,
          deleted |-> store \ out.bucket,
          failed |-> {o.key : o \in eligible} \cap failing,
          deleted_count |-> out.deleted_count, error |-> FALSE, seq |-> 1 - sweep.seq]

\* DELETE /api/cleanup: list_objects raises (500), or the loop runs
CleanupApi ==
    /\ \E listing_fails \in BOOLEAN, failing \in SUBSET Keys(store) :
          LET out == IF listing_fails THEN [bucket |-> store, deleted_count |-> 0]
                     ELSE ApiLoop(store, now, failing, [bucket |-> store, deleted_count |-> 0])
          IN  /\ store' = out.bucket
              /\ sweep' = Swept("api", CLEANUP_INTERVAL,
                                {o \in store : older_api(o, now)}, failing, out,
                                listing_fails)
    /\ UNCHANGED <<req, fs, pydub, now, hours, fetch, segVars, normVars>>

\* cleanup.py run by the scheduler: an S3Error ends it (exit 1), or the loop runs
CleanupScript ==
    /\ \E listing_fails \in BOOLEAN, failing \in SUBSET Keys(store) :
          LET out == IF listing_fails THEN [bucket |-> store, deleted_count |-> 0]
                     ELSE ScriptLoop(store, now, hours, failing,
                                     [bucket |-> store, deleted_count |-> 0])
          IN  /\ store' = out.bucket
              /\ sweep' = Swept("script", hours * TicksPerHour,
                                {o \in store : older_script(o, now, hours)}, failing, out,
                                listing_fails)
    /\ UNCHANGED <<req, fs, pydub, now, hours, fetch, segVars, normVars>>

\* time passes
Tick ==
    /\ now < MaxTime
    /\ now' = now + 1
    /\ UNCHANGED <<req, fs, store, pydub, hours, sweep, fetch, segVars, normVars>>

\* the service with a scheduler: requests for a short text, answered by the
\* engine at the first call, while time passes and both sweeps run
SweepInit ==
    /\ SegIdle
    /\ req = [r \in Reqs |-> IdleReq]
    /\ fs = {}
    /\ store = {}
    /\ pydub = TRUE
    /\ now = 0
    /\ hours \in 1..MaxHours
    /\ sweep = NoSweep
    /\ fetch = [f \in Fetchers |-> IdleFetch]
    /\ NormIdle

SweepNext ==
    \/ \E r \in Reqs :
          \/ Generate(r, <<"a">>)
          \/ SaveOkLast(r)
    \/ Tick
    \/ CleanupApi
    \/ CleanupScript

SpecSweep == SweepInit /\ [][SweepNext]_vars

(***************************************************************************)
(* download_file.  The handler itself does not suspend: fget_object copies *)
(* the object to TEMP_DIR/{file_id}.mp3, the path generate_tts uses for    *)
(* the same id, and the handler returns a FileResponse.  The response is   *)
(* sent afterwards: it reads the file from that path, and its background   *)
(* callable removes the file once the body has been sent.                  *)
(***************************************************************************)
\* what fget_object can do: copy the object, raise S3Error with the code
\* NoSuchKey, raise S3Error with another code, raise another exception
FetchOutcomes == {"ok", "NoSuchKey", "S3Error", "error"}

\* a reachable storage reports what it holds
Truthful(outcome, bucket, key) ==
    /\ outcome = "ok" => Stored(bucket, key)
    /\ outcome = "NoSuchKey" => ~Stored(bucket, key)

\* a variant of DownloadStatus that answers every S3Error with 404;
\* C13_NotFoundOnlyWhenMissing tells it from the source
DownloadStatusAnyS3Error(outcome) ==
    IF outcome \in {"NoSuchKey", "S3Error"} THEN 404 ELSE 500

\* the except branches of download_file (lines 338-343)
DownloadStatus(outcome) ==
    IF outcome = "NoSuchKey" THEN 404 ELSE 500

\* temp_file of download_file
DownloadPath(file_id) == <<file_id, 0>>

\* GET /api/download/{file_id}: the handler, up to its return or its raise
Download(f, file_id) ==
    /\ fetch[f].pc = "idle"
    /\ \E outcome \in FetchOutcomes :
          /\ Truthful(outcome, store, file_id)
          /\ LET q == [fetch[f] EXCEPT
                          !.file_id = file_id,
                          !.reported = outcome,
                          !.existed = Stored(store, file_id),
                          !.data = IF Stored(store, file_id)
                                   THEN Get(store, file_id).data ELSE <<>>]
             IN  IF outcome = "ok"
                 THEN /\ fs' = Write(fs, DownloadPath(file_id), TRUE, q.data)
                      /\ fetch' = [fetch EXCEPT ![f] = [q EXCEPT !.pc = "responding"]]
                 ELSE /\ fs' = fs
                      /\ fetch' = [fetch EXCEPT ![f] =
                                      [q EXCEPT !.pc = "done",
                                                !.status = DownloadStatus(outcome)]]
    /\ UNCHANGED <<req, store, pydub, now, hours, sweep, segVars, normVars>>

\* the FileResponse is sent: the file at path is read, and a file that is
\* not there any more ends the request with a server error
SendFile(f) ==
    /\ fetch[f].pc = "responding"
    /\ LET path == DownloadPath(fetch[f].file_id)
       IN  fetch' = [fetch EXCEPT ![f] =
                IF Exists(fs, path)
                THEN [@ EXCEPT !.pc = "sent", !.status = 200,
                               !.body = Read(fs, path).clips]
                ELSE [@ EXCEPT !.pc = "done", !.status = 500]]
    /\ UNCHANGED <<req, fs, store, pydub, now, hours, sweep, segVars, normVars>>

\* background: os.remove(temp_file) if temp_file.exists() else None
RemoveSent(f) ==
    /\ fetch[f].pc = "sent"
    /\ fs' = Remove(fs, DownloadPath(fetch[f].file_id))
    /\ fetch' = [fetch EXCEPT ![f] = [@ EXCEPT !.pc = "done"]]
    /\ UNCHANGED <<req, store, pydub, now, hours, sweep, segVars, normVars>>

\* the service with its clients: a request for a short text, downloads of
\* its id and of an id never generated, while time passes and
\* DELETE /api/cleanup runs
FetchInit ==
    /\ SegIdle
    /\ NormIdle
    /\ ServiceIdle

FetchNext ==
    \/ Generate(Generated, <<"a">>)
    \/ SaveOkLast(Generated)
    \/ \E f \in Fetchers :
          \/ \E file_id \in FileIds : Download(f, file_id)
          \/ SendFile(f)
          \/ RemoveSent(f)
    \/ Tick
    \/ CleanupApi

SpecFetch == FetchInit /\ [][FetchNext]_vars

(***************************************************************************)
(* generate_tts with a voice the engine does not know, and with clients    *)
(* that disconnect.                                                        *)
(***************************************************************************)
\* the engine has a voice for the request: only then can communicate.save
\* return
EngineKnowsVoice(r) == req[r].voice = DefaultVoice

\* the request's task is cancelled while it is suspended in communicate.save
\* or in asyncio.sleep: CancelledError is not an Exception, so it passes
\* the except clauses of _generate_single_audio_async, generate_audio_async
\* and generate_tts, none of which removes a file; a save that was under
\* way leaves its file as it was or cut short
Cancel(r) ==
    /\ req[r].pc \in {"saving", "sleeping"}
    /\ \E leaves \in BOOLEAN :
          fs' = IF req[r].pc = "saving"
                THEN AfterFailedSave(fs, Target(r, req[r]), leaves)
                ELSE fs
    /\ req' = [req EXCEPT ![r] = [@ EXCEPT !.pc = "cancelled"]]
    /\ UNCHANGED <<store, pydub, now, hours, sweep, fetch, segVars, normVars>>

\* the texts of these requests: one segment, and two
FaultTexts == { <<"a">>, <<"a", ".", " ", "a", "a">> }

FaultsInit ==
    /\ SegIdle
    /\ NormIdle
    /\ ServiceIdle

FaultsNext ==
    \E r \in Reqs :
        \/ \E raw \in FaultTexts, voice \in Voices : GenerateVoice(r, raw, voice)
        \/ SaveFailsRetry(r)
        \/ SleepReturns(r)
        \/ SaveFailsFinal(r)
        \/ EngineKnowsVoice(r) /\ SaveOkNext(r)
        \/ EngineKnowsVoice(r) /\ SaveOkLast(r)
        \/ Cancel(r)

SpecFaults == FaultsInit /\ [][FaultsNext]_vars

(***************************************************************************)
(* generate_tts and both sweeps with the window of the source, the clock   *)
(* advancing also between fput_object and the clock reading of expires_at. *)
(***************************************************************************)
ExpiryInit ==
    /\ SegIdle
    /\ NormIdle
    /\ ServiceIdle

ExpiryNext ==
    \/ \E r \in Reqs :
          \/ Generate(r, <<"a">>)
          \/ \E late \in 0..MaxLate : SaveOkLastAt(r, late)
    \/ Tick
    \/ CleanupApi
    \/ CleanupScript

SpecExpiry == ExpiryInit /\ [][ExpiryNext]_vars

(***************************************************************************)
(* The splitter applied to every bounded text and maxLen.                  *)
(***************************************************************************)
SegInit ==
    /\ seg_text \in Strings(SegAlphabet, MaxTextLen)
    /\ seg_maxlen \in 1..MaxSegLen
    /\ seg_parts = <<>>
    /\ seg_pc = "input"
    /\ ServiceIdle
    /\ NormIdle

ApplySegment ==
    /\ seg_pc = "input"
    /\ seg_parts' = segment(seg_text, seg_maxlen)
    /\ seg_pc' = "done"
    /\ UNCHANGED <<seg_text, seg_maxlen, serviceVars, normVars>>

SegNext == ApplySegment

SpecSegment == SegInit /\ [][SegNext]_vars

(***************************************************************************)
(* The abbreviation step of clean_text applied to bounded texts, with the  *)
(* pairs of the table taken in the order of the source and in every order  *)
(* that exchanges two of them.                                             *)
(***************************************************************************)
\* the patterns of the table
Patterns == {replacements[i][1] : i \in DOMAIN replacements}

\* the words the texts are made of: the patterns and a word that is none
Vocabulary == Patterns \cup {<<"a">>}

\* ' '.join(words)
RECURSIVE JoinWords(_)
JoinWords(words) ==
    IF words = <<>> THEN <<>>
    ELSE IF Len(words) = 1 THEN Head(words)
    ELSE Head(words) \o <<" ">> \o JoinWords(Tail(words))

\* the texts handed to the step: at most MaxWords words, single spaces
\* between them, as the whitespace steps of clean_text leave them
NormWords == UNION {[1..k -> Vocabulary] : k \in 0..MaxWords}

\* the table with pairs i and j exchanged
Swap(table, i, j) ==
    [k \in DOMAIN table |-> IF k = i THEN table[j] ELSE IF k = j THEN table[i] ELSE table[k]]

TableOrders ==
    {Swap(replacements, i, j) : i \in DOMAIN replacements, j \in DOMAIN replacements}

NormInit ==
    /\ norm_text \in NormWords
    /\ norm_table \in TableOrders
    /\ norm_out = <<>>
    /\ norm_pc = "input"
    /\ SegIdle
    /\ ServiceIdle

\* lines 105-106 on the text of the words
ExpandAbbreviations ==
    /\ norm_pc = "input"
    /\ norm_out' = ReplaceAll(JoinWords(norm_text), norm_table)
    /\ norm_pc' = "done"
    /\ UNCHANGED <<norm_text, norm_table, serviceVars, segVars>>

NormNext == ExpandAbbreviations

SpecNormalize == NormInit /\ [][NormNext]_vars

(***************************************************************************)
(* Properties of generate_tts, checked under Spec.                         *)
(***************************************************************************)
\* the request has been answered with an error
Errored(q) == q.status \in {400, 422, 500}

\* the audio the request produced: the object stored under its key, or
\* else the output file left in TEMP_DIR
OutputOf(r) ==
    IF Stored(store, r) THEN Get(store, r).data
    ELSE IF Exists(fs, <<r, 0>>) THEN Read(fs, <<r, 0>>).clips
    ELSE <<>>

\* C1: a request that ended in an error has no object under its key and one
\* that succeeded has its audio there; nothing is stored before the answer,
\* and every answer is one of the two
C1_PersistedOrFailed ==
    \A r \in Reqs :
        LET q == req[r]
        IN  /\ Errored(q) => ~Stored(store, r)
            /\ q.status = 200 => Stored(store, r) /\ Get(store, r).data # <<>>
            /\ Stored(store, r) => q.status = 200 /\ q.pc = "done"
            /\ q.pc = "done" <=> (Errored(q) \/ q.status = 200)

\* one request failed at the upload, another was persisted
C1_Witness ==
    \E r1, r2 \in Reqs :
        /\ req[r1].status = 500 /\ req[r1].puts = 1 /\ ~Stored(store, r1)
        /\ req[r2].status = 200 /\ Stored(store, r2)

\* C2: a synthesis call never makes more than max_retries engine calls; it
\* returns failure only after max_retries failed calls; when every engine
\* call fails it makes exactly max_retries of them, generate answers with an
\* error and no put is issued
C2_RetriesExhausted ==
    \A r \in Reqs :
        LET q == req[r]
        IN  /\ q.calls <= max_retries
            /\ q.last.calls <= max_retries
            /\ (q.last.calls > 0 /\ ~q.last.ok) =>
                   q.last.calls = max_retries /\ q.last.fails = max_retries
            /\ (q.pc = "done" /\ q.invocations = 1 /\ q.fails = q.calls /\ q.calls > 0) =>
                   /\ q.calls = max_retries
                   /\ ~q.last.ok
                   /\ q.status = 500
                   /\ q.puts = 0
                   /\ ~Stored(store, r)
            /\ q.detail = "Failed to generate audio" =>
                   ~q.last.ok /\ q.last.calls = max_retries /\ q.puts = 0

\* the engine failed at every call of a request's only synthesis call
C2_Witness ==
    \E r \in Reqs :
        /\ req[r].pc = "done"
        /\ req[r].last = [calls |-> 3, fails |-> 3, waits |-> <<2, 4>>, ok |-> FALSE]
        /\ req[r].detail = "Failed to generate audio"

\* the sleeps after k failed attempts: (i + 1) * base_delay after attempt i
Backoff(k) == [i \in 1..k |-> i * base_delay]

\* C3: a synthesis call that succeeds after k failed engine calls has
\* k < max_retries, made k + 1 calls and slept (i + 1) * base_delay after
\* failed attempt i; the successful call is its last call and no sleep
\* follows it
C3_LinearBackoff ==
    \A r \in Reqs :
        LET q == req[r]
        IN  /\ q.last.ok =>
                   /\ q.last.fails < max_retries
                   /\ q.last.calls = q.last.fails + 1
                   /\ q.last.waits = Backoff(q.last.fails)
                   /\ Sum(q.last.waits) >= Sum(Backoff(q.last.fails))
            /\ q.pc = "sleeping" => q.waits = Backoff(q.fails) /\ q.calls = q.fails
            /\ (q.pc = "done" /\ q.last.ok) =>
                   q.calls = q.last.calls /\ q.waits = q.last.waits

\* the engine failed twice and then succeeded: three calls, sleeps of
\* base_delay and 2 * base_delay
C3_Witness ==
    \E r \in Reqs :
        /\ req[r].last.ok
        /\ req[r].last.fails = 2
        /\ req[r].last.calls = 3
        /\ req[r].last.waits = <<base_delay, 2 * base_delay>>

\* C4: a request that failed because a synthesis call exhausted its retries
\* or because the upload failed has left no file in TEMP_DIR
C4_NoTempFilesAfterFailure ==
    \A r \in Reqs :
        LET q == req[r]
        IN  (q.detail = "Failed to generate audio" \/ (q.status = 500 /\ q.puts = 1))
                => FilesOf(fs, r) = {}

\* C5: when the parts of a request split into two or more segments were
\* assembled with success, the output is the audio of every segment, once,
\* in the order of the segments
C5_AssemblyInOrder ==
    \A r \in Reqs :
        LET q == req[r]
        IN  (Len(q.parts) >= 2 /\ q.merged \in {"rename", "pydub", "first_only"})
                => OutputOf(r) = Join([i \in 1..Len(q.parts) |-> Audio(q.parts[i])])

\* the segments of every text of at most max_length characters
ShortSegments == [t \in Strings(SegAlphabet, max_length) |-> segment(t, max_length)]

\* C8: a text of at most max_length characters is one segment equal to the
\* text, and a request whose cleaned text is that short is synthesized by a
\* single synthesis call that writes the output file: no part file, no merge
C8_FastPath ==
    /\ \A t \in DOMAIN ShortSegments : ShortSegments[t] = <<t>>
    /\ \A r \in Reqs :
        LET q == req[r]
        IN  (q.text # <<>> /\ Len(q.text) <= max_length) =>
                /\ q.parts = <<q.text>>
                /\ q.invocations = 1
                /\ q.temp_files = <<>>
                /\ q.merged = "none"
                /\ \A f \in FilesOf(fs, r) : f.path[2] = 0
                /\ \A f \in FilesOf(fs, r) : f.whole => f.clips = Audio(q.text)
                /\ q.status = 200 => Get(store, r).data = Audio(q.text)

\* a text of exactly max_length characters was stored
C8_Witness ==
    \E r \in Reqs :
        /\ Len(req[r].text) = max_length
        /\ req[r].status = 200
        /\ Get(store, r).data = Audio(req[r].text)

\* C9: a request whose text is empty or cleans to the empty string is
\* answered with a client error before any engine call and any storage call
C9_EmptyRejected ==
    \A r \in Reqs :
        LET q == req[r]
        IN  (q.pc # "idle" /\ (q.raw = <<>> \/ Cleaned[q.raw] = <<>>)) =>
                /\ q.pc = "done"
                /\ q.status \in {400, 422}
                /\ q.invocations = 0
                /\ q.calls = 0
                /\ q.puts = 0
                /\ FilesOf(fs, r) = {}
                /\ ~Stored(store, r)

\* a text of markup only was rejected, and so was the empty text
C9_Witness ==
    \E r1, r2 \in Reqs :
        /\ req[r1].raw = <<"<", "a", ">">> /\ req[r1].status = 400
        /\ req[r2].pc = "done" /\ req[r2].raw = <<>> /\ req[r2].status = 422

\* the part files of a request in TEMP_DIR
PartFilesOf(dir, id) == {f \in FilesOf(dir, id) : f.path[2] >= 1}

\* C15: when the merge of two or more parts has failed, no part file of the
\* request is left in TEMP_DIR
C15_FailedMergeRemovesParts ==
    \A r \in Reqs :
        LET q == req[r]
        IN  (Len(q.temp_files) >= 2 /\ q.merged = "error") => PartFilesOf(fs, r) = {}

(***************************************************************************)
(* Properties of the retention sweep, checked under SpecSweep.             *)
(***************************************************************************)
\* C10: a sweep whose deletes all succeed removes exactly the objects whose
\* last-modified time is before now - window (one as old as the window
\* stays) and returns their number; for the same window main.py and
\* cleanup.py select the same objects
C10_SweepDeletesOlder ==
    [][(sweep'.seq # sweep.seq /\ ~sweep'.error /\ sweep'.failed = {}) =>
          LET old == {o \in store : o.last_modified < now - sweep'.window}
          IN  /\ store' = store \ old
              /\ sweep'.deleted = old
              /\ sweep'.deleted_count = Cardinality(old)
              /\ hours * TicksPerHour = CLEANUP_INTERVAL =>
                    {o \in store : older_api(o, now)}
                        = {o \in store : older_script(o, now, hours)}]_vars

\* a sweep with a window of one hour met an object two hours old and one
\* half an hour old: it removed the first and returned 1
C10_Witness ==
    /\ sweep.kind # "none" /\ ~sweep.error /\ sweep.failed = {}
    /\ sweep.at = now
    /\ sweep.window = TicksPerHour
    /\ sweep.deleted_count = 1
    /\ \E d \in sweep.deleted : now - d.last_modified = 2 * TicksPerHour
    /\ \E o \in store : 2 * (now - o.last_modified) = TicksPerHour
    /\ Cardinality(store) = 1

\* C11: in a sweep that ran its loop, a delete that fails leaves its object
\* in the bucket and stops nothing: every other object older than the window
\* is removed, the sweep ends without an error, and the count it returns is
\* the number of objects removed (a failed delete is not counted)
C11_FailedDeleteSkipped ==
    [][(sweep'.seq # sweep.seq /\ ~sweep'.error) =>
          LET old == {o \in store : o.last_modified < now - sweep'.window}
              kept == {o \in old : o.key \in sweep'.failed}
          IN  /\ sweep'.failed \subseteq Keys(old)
              /\ store' = (store \ old) \cup kept
              /\ sweep'.deleted = old \ kept
              /\ sweep'.deleted_count = Cardinality(old \ kept)]_vars

\* a sweep met two objects older than its window: the delete of one failed,
\* the other was removed and the sweep returned 1
C11_Witness ==
    /\ sweep.kind # "none" /\ ~sweep.error
    /\ Cardinality(sweep.failed) = 1
    /\ sweep.deleted_count = 1
    /\ Cardinality(sweep.deleted) = 1
    /\ \E o \in store : o.key \in sweep.failed /\ o.last_modified < sweep.at - sweep.window

(***************************************************************************)
(* Properties of generate_tts under faults, checked under SpecFaults.      *)
(***************************************************************************)
\* C14: a synthesis call for a voice the engine does not know makes one
\* engine call and sleeps no backoff wait
C14_NoRetryOnTerminalError ==
    \A r \in Reqs :
        LET q == req[r]
        IN  (q.pc # "idle" /\ q.voice = UnknownVoice) =>
                /\ q.calls <= 1
                /\ q.waits = <<>>
                /\ q.pc # "sleeping"

\* C18: a generate request that was cancelled starts no synthesis call and
\* no engine call afterwards and has no file left in TEMP_DIR, and the step
\* that cancels it changes no other request and none of their files
C18_CancelReclaims ==
    [][\A r \in Reqs :
          /\ req'[r].pc = "cancelled" => FilesOf(fs', r) = {}
          /\ req[r].pc = "cancelled" => req'[r] = req[r]
          /\ (req[r].pc # "cancelled" /\ req'[r].pc = "cancelled") =>
                 \A o \in Reqs \ {r} :
                     req'[o] = req[o] /\ FilesOf(fs', o) = FilesOf(fs, o)]_vars

(***************************************************************************)
(* Properties of expires_at, checked under SpecExpiry.                     *)
(***************************************************************************)
\* C20: the object of a request answered with expires_at is in the bucket
\* at every time before expires_at, so a download issued then finds it
C20_KeptUntilExpiresAt ==
    \A r \in Reqs :
        (req[r].status = 200 /\ now < req[r].expires_at) => Stored(store, r)

(***************************************************************************)
(* Properties of download_file, checked under SpecFetch.                   *)
(***************************************************************************)
\* the download has been answered
Answered(q) == q.status # 0

\* C12: with storage reachable, a download is answered with the object's
\* bytes if and only if the object was in the bucket when fget_object read
\* it, and with 404 if and only if it was not
C12_FetchIffStored ==
    \A f \in Fetchers :
        LET q == fetch[f]
        IN  (Answered(q) /\ q.reported \in {"ok", "NoSuchKey"}) =>
                /\ q.existed <=> (q.status = 200 /\ q.body = q.data)
                /\ ~q.existed <=> q.status = 404

\* C13: a download of an id never generated is answered with 404 when
\* storage reports the key missing and is never answered with the bytes of
\* an object; 404 is the answer only when storage reported the key missing,
\* and it was missing; every other failure of fget_object and a failure
\* while the response is sent are answered with 500
C13_NotFoundOnlyWhenMissing ==
    \A f \in Fetchers :
        LET q == fetch[f]
        IN  Answered(q) =>
                /\ q.file_id = NeverGenerated =>
                       /\ q.status # 200
                       /\ q.reported = "NoSuchKey" => q.status = 404
                       /\ ~q.existed
                /\ q.status = 404 <=> q.reported = "NoSuchKey"
                /\ q.status = 404 => ~q.existed
                /\ q.reported \in {"S3Error", "error"} => q.status = 500
                /\ q.status \in {200, 404, 500}

\* one download of an id never generated was answered 404 and another met
\* an S3Error with another code and was answered 500
C13_Witness ==
    \E f, g \in Fetchers :
        /\ fetch[f].file_id = NeverGenerated
        /\ fetch[f].reported = "NoSuchKey"
        /\ fetch[f].status = 404
        /\ fetch[g].reported = "S3Error"
        /\ fetch[g].status = 500

\* the file at a path, or none
FileAt(dir, path) == {f \in dir : f.path = path}

\* C16: no step of another request changes or removes a file that a
\* request in flight is using: the file a download has fetched and not yet
\* removed, and the files of a generate request that has not been answered
C16_TempFilesNotShared ==
    [][/\ \A f \in Fetchers :
             (fetch[f].pc \in {"responding", "sent"} /\ fetch'[f] = fetch[f]) =>
                 FileAt(fs', DownloadPath(fetch[f].file_id))
                     = FileAt(fs, DownloadPath(fetch[f].file_id))
       /\ \A r \in Reqs :
             (req[r].pc \in {"saving", "sleeping"} /\ req'[r] = req[r]) =>
                 FilesOf(fs', r) = FilesOf(fs, r)]_vars

(***************************************************************************)
(* Properties of the abbreviation step, checked under SpecNormalize.       *)
(***************************************************************************)
\* a word with its own replacement, if the table has one for it
OwnReplacement(word) ==
    IF word \in Patterns
    THEN replacements[CHOOSE i \in DOMAIN replacements : replacements[i][1] = word][2]
    ELSE word

\* C19: the step gives what the order of the source gives whatever order
\* the pairs are applied in, and that is the text with every word that is a
\* pattern replaced by the pattern's own replacement
C19_ExpansionOrderFree ==
    norm_pc = "done" =>
        /\ norm_out = ReplaceAll(JoinWords(norm_text), replacements)
        /\ norm_out = JoinWords([k \in DOMAIN norm_text |-> OwnReplacement(norm_text[k])])

(***************************************************************************)
(* Properties of the splitter, checked under SpecSegment.                  *)
(***************************************************************************)
\* C6: concatenating the segments returned, in order, gives the input text back
C6_ConcatReproducesText ==
    seg_pc = "done" => Join(seg_parts) = seg_text

\* a text longer than maxLen was split into several segments, one of them
\* ending in a terminator and the whitespace after it
C6_Witness ==
    /\ seg_pc = "done"
    /\ Len(seg_text) > seg_maxlen
    /\ Len(seg_parts) >= 2
    /\ Len(seg_parts[1]) >= 3
    /\ IsSpace(seg_parts[1][Len(seg_parts[1])])
    /\ IsSpace(seg_parts[1][Len(seg_parts[1]) - 1])

\* the sentences of a text: each piece of the split with the separator
\* that follows it
SentencesOf(text) ==
    LET sentences == re_split(text)
    IN  [k \in 1..((Len(sentences) + 1) \div 2) |-> SentenceAt(sentences, 2 * k - 1)]

\* with a new segment started after each sentence whose number is in cuts:
\* the first sentence of the segment that holds sentence k
SegmentStart(cuts, k) ==
    LET before == {c \in cuts : c < k}
    IN  IF before = {} THEN 1 ELSE 1 + CHOOSE c \in before : \A d \in before : d <= c

\* the last sentence of the segment that starts at sentence k
SegmentEnd(cuts, k, n) ==
    LET after == {c \in cuts : c >= k}
    IN  IF after = {} THEN n ELSE CHOOSE c \in after : \A d \in after : c <= d

\* the length of sentences from..to together
RECURSIVE LenOfRun(_, _, _)
LenOfRun(S, from, to) ==
    IF from > to THEN 0 ELSE Len(S[from]) + LenOfRun(S, from + 1, to)

\* the segments that the cuts make of the sentences
RECURSIVE SegmentsFrom(_, _, _)
SegmentsFrom(S, cuts, k) ==
    IF k > Len(S) THEN <<>>
    ELSE LET e == SegmentEnd(cuts, k, Len(S))
         IN  <<Join(SubSeq(S, k, e))>> \o SegmentsFrom(S, cuts, e + 1)

\* the cuts are those of a greedy packing: a segment ends after sentence k
\* exactly when the next sentence would take it over maxLen
IsGreedy(S, cuts, maxLen) ==
    \A k \in 1..(Len(S) - 1) :
        k \in cuts <=> LenOfRun(S, SegmentStart(cuts, k), k) + Len(S[k + 1]) > maxLen

====
